---- MODULE Spec2Model ----
(***************************************************************************)
(* Model of the email-driven library assistant (src/app).                  *)
(*                                                                         *)
(* Texts are sequences of one-character strings; a longer string inside a  *)
(* sequence stands for a fixed literal of the source that no operation     *)
(* looks into.  An LLM reply is a sequence of lexical segments (fence,     *)
(* tag, whitespace, a JSON object literal, a JSON scalar, a word).         *)
(***************************************************************************)
EXTENDS Integers, Sequences, FiniteSets, TLC

VARIABLES
    entry,            \* the function under execution at the top level
    pc,               \* position inside it
    req,              \* raw request fields as received
    email_data,       \* the validated EmailRequest
    llm_result,       \* value returned by natural_language_to_sql
    parse_out,        \* outcome of a direct _parse_sql_response call
    sql,              \* argument of execute_sql_query
    conn,             \* storage connection held by execute_sql_query
    cursor,           \* cursor held by execute_sql_query
    ret,              \* value execute_sql_query returns
    exec_raised,      \* an exception left execute_sql_query
    failed,           \* storage steps that failed during this execution
    format_args,      \* arguments handed to the responder
    natural_response, \* text returned by the responder
    send_outcome,     \* what send_response_email did
    result,           \* what the caller of process_single_email receives
    calls,            \* external calls made so far, in order
    provider_did,     \* what the provider did at each of the two LLM calls
    smtp,             \* one call of send_response_email: arguments, attempts, value
    batch,            \* one run of process_all_pending_emails
    store,            \* the books and reservations tables
    runs              \* the mailbox and the batch runs scheduled on one event loop

vars == <<entry, pc, req, email_data, llm_result, parse_out, sql, conn, cursor,
          ret, exec_raised, failed, format_args, natural_response,
          send_outcome, result, calls, provider_did, smtp, batch, store, runs>>

(***************************************************************************)
(* Bounds of the model                                                     *)
(***************************************************************************)
MaxEmailLen == 5
MaxBodyLen == 11
MaxBatch == 3
MaxRunUnits == 1
MaxRows == 2
MaxReservations == 2
MaxReplyLen == 3

(***************************************************************************)
(* Text helpers (Python str methods)                                       *)
(***************************************************************************)
SetMin(S) == CHOOSE x \in S : \A y \in S : x <= y
SetMax(S) == CHOOSE x \in S : \A y \in S : x >= y

Range(s) == {s[i] : i \in 1..Len(s)}

Strings(A, n) == UNION {[1..k -> A] : k \in 0..n}

Repeat(c, n) == [i \in 1..n |-> c]

IsSpace(c) == c \in {" ", "NL"}

\* str.strip()
Strip(s) ==
    LET keep == {i \in 1..Len(s) : ~IsSpace(s[i])}
    IN  IF keep = {} THEN <<>> ELSE SubSeq(s, SetMin(keep), SetMax(keep))

UpperChar(c) ==
    CASE c = "s" -> "S" [] c = "e" -> "E" [] c = "l" -> "L"
      [] c = "c" -> "C" [] c = "t" -> "T" [] c = "x" -> "X"
      [] c = "a" -> "A" [] c = "sql" -> "SQL" [] c = "sql:" -> "SQL:"
      [] c = "json" -> "JSON" [] c = "reservar" -> "RESERVAR"
      [] c = "cancelar" -> "CANCELAR" [] c = "insert" -> "INSERT"
      [] c = "error" -> "ERROR" [] c = "garbage" -> "GARBAGE"
      [] OTHER -> c

\* str.upper()
Upper(s) == [i \in 1..Len(s) |-> UpperChar(s[i])]

\* str.startswith()
StartsWith(s, p) == Len(s) >= Len(p) /\ SubSeq(s, 1, Len(p)) = p

\* the in operator on a str
Contains(s, c) == \E i \in 1..Len(s) : s[i] = c

(***************************************************************************)
(* EmailRequest (models.py): the field validators                          *)
(***************************************************************************)
MinBodyLen == 10
MinTldLen == 2

Letters == {"a", "s", "x"}
Digits == {"1"}
LocalChars == Letters \cup Digits \cup {".", "_", "%", "+", "-"}
DomainChars == Letters \cup Digits \cup {".", "-"}

\* re.match(email_pattern, s): local part, "@", domain, ".", two or more letters
EmailPatternMatches(s) ==
    \E i \in 1..Len(s) : \E j \in (i + 2)..Len(s) :
        /\ i >= 2
        /\ \A k \in 1..(i - 1) : s[k] \in LocalChars
        /\ s[i] = "@"
        /\ \A k \in (i + 1)..(j - 1) : s[k] \in DomainChars
        /\ s[j] = "."
        /\ Len(s) - j >= MinTldLen
        /\ \A k \in (j + 1)..Len(s) : s[k] \in Letters

\* a validator's outcome: the value it returns, or the ValueError
Valid(v) == [ok |-> TRUE, value |-> v]
Invalid == [ok |-> FALSE, value |-> <<>>]

validate_not_empty_or_whitespace(value) ==
    IF value = <<>> \/ Strip(value) = <<>> THEN Invalid ELSE Valid(Strip(value))

validate_email_format_any(value) == Valid(Strip(value))

validate_email_format(value) ==
    IF ~EmailPatternMatches(Strip(value)) THEN Invalid ELSE Valid(Strip(value))

validate_body_length_none(value) == Valid(value)

validate_body_length(value) ==
    IF Len(Strip(value)) < MinBodyLen THEN Invalid ELSE Valid(value)

\* EmailRequest(subject=..., body=..., from_email=...)
EmailRequest(r) ==
    LET s  == validate_not_empty_or_whitespace(r.subject)
        b1 == validate_not_empty_or_whitespace(r.body)
        b  == IF b1.ok THEN validate_body_length(b1.value) ELSE Invalid
        f1 == validate_not_empty_or_whitespace(r.from_email)
        f  == IF f1.ok THEN validate_email_format(f1.value) ELSE Invalid
    IN  IF s.ok /\ b.ok /\ f.ok
        THEN [ok |-> TRUE, subject |-> s.value, body |-> b.value,
              from_email |-> f.value]
        ELSE [ok |-> FALSE, subject |-> <<>>, body |-> <<>>,
              from_email |-> <<>>]

NoEmailData == [ok |-> FALSE, subject |-> <<>>, body |-> <<>>, from_email |-> <<>>]

(***************************************************************************)
(* Requests the model submits                                              *)
(***************************************************************************)
EmailAlphabet == {"a", "@", "."}
Pad(s, n) == Repeat(" ", n) \o s \o Repeat(" ", n)
Pads == {0, 1}

\* every text over the alphabet up to the bound, two well-formed addresses,
\* and each of them again inside blanks
FromEmails ==
    {Pad(e, n) :
        e \in Strings(EmailAlphabet, MaxEmailLen)
                \cup {<<"a", "@", "a", ".", "a", "a">>,
                      <<"a", "1", ".", "@", "x", "-", "s", ".", "s", "a", "x">>},
        n \in Pads}
Subjects == {<<>>, <<" ">>, <<"s">>}
Bodies == {Pad(Repeat("x", j), n) : j \in 0..MaxBodyLen, n \in Pads}

NoRequest == [subject |-> <<>>, body |-> <<>>, from_email |-> <<>>]

(***************************************************************************)
(* JSON values and their text (json.loads on the candidate payload)        *)
(***************************************************************************)
JNull == [type |-> "null", text |-> <<>>]
JStr(t) == [type |-> "str", text |-> t]
JNum(t) == [type |-> "num", text |-> t]

TruthyUnlessNone(j) == j.type # "null"

\* Python truthiness of a decoded value
Truthy(j) ==
    CASE j.type = "str" -> j.text # <<>>
      [] j.type = "num" -> j.text # <<"0">>
      [] OTHER -> FALSE

RequiredKeys == {"sql", "operation_type", "explanation"}

SELECT == <<"S", "E", "L", "E", "C", "T">>
QSelect == SELECT \o <<" ", "x">>
QSelectLower == <<" ", "s", "e", "l", "e", "c", "t", " ", "x">>
QInsert == <<"INSERT", " ", "x">>
QUpdate == <<"UPDATE", " ", "x">>
DefaultSql == SELECT \o <<" * FROM books WHERE available = 1">>

OperationType ==
    {<<"RESERVE", "_BOOK">>, <<"RENEW", "_RESERVATION">>,
     <<"CANCEL", "_RESERVATION">>, <<"ADD", "_BOOK">>, <<"REMOVE", "_BOOK">>,
     <<"LIST", "_BOOKS">>, <<"ERROR">>}

Obj(keys, s, o, e) ==
    [jt |-> "obj", keys |-> keys, sql |-> s, operation_type |-> o,
     explanation |-> e, text |-> <<>>]
Scalar(jt, t) ==
    [jt |-> jt, keys |-> {}, sql |-> JNull, operation_type |-> JNull,
     explanation |-> JNull, text |-> t]

Why == <<"PASO", " ", "1">>

\* the three-backtick fence of a code block
Fence == "FENCE"

\* a payload whose explanation quotes an empty json code block
FencePayload ==
    Obj(RequiredKeys, JStr(QInsert), JStr(<<"ADD", "_BOOK">>),
        JStr(<<Fence, "json", Fence>>))

\* the JSON documents the model's provider can write
JsonObjects ==
    {Obj(RequiredKeys, JStr(QInsert), JStr(<<"RESERVE", "_BOOK">>), JStr(Why)),
     Obj(RequiredKeys, JStr(QSelect), JStr(<<"LIST", "_BOOKS">>), JStr(Why)),
     Obj(RequiredKeys, JStr(QSelectLower), JStr(<<"LIST", "_BOOKS">>), JStr(Why)),
     Obj(RequiredKeys, JStr(QUpdate), JStr(<<"DROP", "_TABLE">>), JStr(Why)),
     Obj(RequiredKeys, JNull, JStr(<<"error">>), JStr(Why)),
     Obj(RequiredKeys, JNull, JStr(<<"error">>), JStr(<<" ", "x", " ">>)),
     Obj(RequiredKeys, JNull, JStr(<<"error">>), JStr(<<" ">>)),
     Obj(RequiredKeys, JNull, JStr(<<"error">>), JStr(<<>>)),
     Obj(RequiredKeys, JNull, JStr(<<"error">>), JNull),
     Obj(RequiredKeys, JStr(<<>>), JStr(<<"LIST", "_BOOKS">>), JStr(Why)),
     Obj(RequiredKeys, JNum(<<"0">>), JStr(<<"LIST", "_BOOKS">>), JStr(Why)),
     Obj(RequiredKeys, JNum(<<"5">>), JNull, JNull),
     Obj({"sql", "operation_type"}, JStr(QInsert), JStr(<<"RESERVE", "_BOOK">>), JNull),
     Obj({}, JNull, JNull, JNull),
     FencePayload}

JsonScalars ==
    {Scalar("num", <<"42">>), Scalar("null", <<"null">>), Scalar("bool", <<"true">>),
     Scalar("str", <<"hola">>),
     Scalar("str", <<"sql", " ", "operation_type", " ", "explanation">>),
     Scalar("list", <<"sql", "operation_type", "explanation">>),
     Scalar("list", <<"sql">>)}

JsonValues == JsonObjects \cup JsonScalars

\* text of a JSON value inside an object
SerJ(j) ==
    CASE j.type = "str" -> <<"'">> \o j.text \o <<"'">>
      [] j.type = "num" -> j.text
      [] OTHER -> <<"null">>

Field(v, k, j) == IF k \in v.keys THEN <<"'" , k, "':">> \o SerJ(j) \o <<",">> ELSE <<>>

\* text of a JSON document
Serialize(v) ==
    CASE v.jt = "obj" ->
            <<"{">> \o Field(v, "sql", v.sql)
                    \o Field(v, "operation_type", v.operation_type)
                    \o Field(v, "explanation", v.explanation) \o <<"}">>
      [] v.jt = "str" -> <<"'">> \o v.text \o <<"'">>
      [] v.jt = "list" -> <<"[">> \o v.text \o <<"]">>
      [] OTHER -> v.text

\* json.loads: the document whose text this is, or JSONDecodeError
Decodes(c) == \E v \in JsonValues : Serialize(v) = c
Decode(c) == CHOOSE v \in JsonValues : Serialize(v) = c

(***************************************************************************)
(* LLMService._parse_sql_response and its recovery helpers                 *)
(***************************************************************************)
RawExcerptLen == 200

IdxOf(t, a) == {i \in 1..Len(t) : t[i] = a}
After(S, p) == {i \in S : i > p}
Prefix(t, n) == SubSeq(t, 1, IF Len(t) < n THEN Len(t) ELSE n)

NoMatch == [found |-> FALSE, group |-> <<>>]
Match(g) == [found |-> TRUE, group |-> g]

\* re.search of a fenced block: the leftmost opening fence carrying the tag
\* that has a closing fence after it, closed lazily, whitespace trimmed
FencedBlock(t, tag, ignorecase) ==
    LET n == Len(tag)
        m == IF ignorecase THEN Upper(t) ELSE t
        opens == {p \in IdxOf(t, Fence) :
                     /\ p + n <= Len(t)
                     /\ SubSeq(m, p + 1, p + n) = tag
                     /\ After(IdxOf(t, Fence), p + n) # {}}
    IN  IF opens = {} THEN NoMatch
        ELSE LET p == SetMin(opens)
                 q == SetMin(After(IdxOf(t, Fence), p + n))
             IN  Match(Strip(SubSeq(t, p + n + 1, q - 1)))

\* re.search of the brace pattern with DOTALL: greedy, first "{" to last "}"
BraceSpanFirstClose(t) ==
    LET opens == {p \in IdxOf(t, "{") : After(IdxOf(t, "}"), p) # {}}
    IN  IF opens = {} THEN NoMatch
        ELSE LET p == SetMin(opens)
             IN  Match(SubSeq(t, p, SetMin(After(IdxOf(t, "}"), p))))

BraceSpan(t) ==
    LET opens == {p \in IdxOf(t, "{") : After(IdxOf(t, "}"), p) # {}}
    IN  IF opens = {} THEN NoMatch
        ELSE Match(SubSeq(t, SetMin(opens), SetMax(IdxOf(t, "}"))))

JsonMatchBraceFirst(t) ==
    IF BraceSpan(t).found THEN BraceSpan(t)
    ELSE IF FencedBlock(t, <<"json">>, FALSE).found THEN FencedBlock(t, <<"json">>, FALSE)
    ELSE FencedBlock(t, <<>>, FALSE)

\* the json_patterns loop: the first pattern that matches decides
JsonMatch(t) ==
    IF FencedBlock(t, <<"json">>, FALSE).found THEN FencedBlock(t, <<"json">>, FALSE)
    ELSE IF FencedBlock(t, <<>>, FALSE).found THEN FencedBlock(t, <<>>, FALSE)
    ELSE BraceSpan(t)

\* the text handed to json.loads
Candidate(response) ==
    LET cleaned == Strip(response)
        m == JsonMatch(cleaned)
    IN  IF m.found /\ m.group # <<>> THEN Strip(m.group) ELSE cleaned

\* a statement keyword up to the first ";" after it (lazy)
KeywordToSemicolon(t, kw) ==
    LET u == Upper(t)
        n == Len(kw)
        starts == {p \in 1..Len(t) :
                      /\ p + n - 1 <= Len(t)
                      /\ SubSeq(u, p, p + n - 1) = kw
                      /\ After(IdxOf(t, ";"), p + n - 1) # {}}
    IN  IF starts = {} THEN NoMatch
        ELSE LET p == SetMin(starts)
             IN  Match(SubSeq(t, p, SetMin(After(IdxOf(t, ";"), p + n - 1))))

\* re.search of the SQL: label pattern: the rest of the line after the label
SqlLabel(t) ==
    LET labels == IdxOf(Upper(t), "SQL:")
    IN  IF labels = {} THEN NoMatch
        ELSE LET p == SetMin(labels)
                 rest == {i \in After(1..Len(t), p) : ~IsSpace(t[i])}
                 from == IF rest = {} THEN Len(t) + 1 ELSE SetMin(rest)
                 nls == After(IdxOf(t, "NL"), from - 1)
                 to == IF nls = {} THEN Len(t) ELSE SetMin(nls) - 1
             IN  Match(SubSeq(t, from, to))

FirstFound(ms) ==
    LET hits == {i \in 1..Len(ms) : ms[i].found}
    IN  IF hits = {} THEN NoMatch ELSE ms[SetMin(hits)]

ExtractsDefaultOnly(response) == DefaultSql

_extract_fallback_sql(response) ==
    LET m == FirstFound(<<SqlLabel(response),
                          FencedBlock(response, <<"SQL">>, TRUE),
                          KeywordToSemicolon(response, SELECT),
                          KeywordToSemicolon(response, <<"INSERT">>),
                          KeywordToSemicolon(response, <<"UPDATE">>),
                          KeywordToSemicolon(response, <<"DELETE">>)>>)
    IN  IF m.found THEN Strip(m.group) ELSE DefaultSql

HasAny(u, words) == \E w \in words : Contains(u, w)

_extract_operation_type(response) ==
    LET u == Upper(response)
    IN  IF HasAny(u, {"RESERVE", "RESERVAR"}) THEN <<"RESERVE", "_BOOK">>
        ELSE IF HasAny(u, {"RENEW", "RENOVAR"}) THEN <<"RENEW", "_RESERVATION">>
        ELSE IF HasAny(u, {"CANCEL", "CANCELAR"}) THEN <<"CANCEL", "_RESERVATION">>
        ELSE IF HasAny(u, {"ADD", "AGREGAR"}) THEN <<"ADD", "_BOOK">>
        ELSE IF HasAny(u, {"REMOVE", "ELIMINAR"}) THEN <<"REMOVE", "_BOOK">>
        ELSE IF HasAny(u, {"LIST", "MOSTRAR"}) THEN <<"LIST", "_BOOKS">>
        ELSE <<"LIST", "_BOOKS">>

Dict(s, o, e) == [sql |-> s, operation_type |-> o, explanation |-> e]
NoDict == Dict(JNull, JNull, JNull)

\* outcome of the parser: the value, and the branch that produced it
Returned(d) == [raised |-> FALSE, value |-> d, path |-> "decoded"]
Recovered(d) == [raised |-> FALSE, value |-> d, path |-> "recovery"]
Raised == [raised |-> TRUE, value |-> NoDict, path |-> "raised"]

\* the except (json.JSONDecodeError, ValueError) branch
RecoveryPath(response, err) ==
    LET op == _extract_operation_type(response)
    IN  Recovered(Dict(JStr(_extract_fallback_sql(response)),
                       JStr(IF op # <<>> THEN op ELSE <<"error">>),
                       JStr(<<"Error parsing response: ", err, ". Raw: ">>
                            \o Prefix(response, RawExcerptLen) \o <<"...">>)))

\* the test key in parsed, for each required key: a TypeError when parsed is a
\* number, a boolean or None
MembershipRaises(parsed) == parsed.jt \in {"num", "null", "bool"}
HasAllKeysAndQuery(parsed) ==
    parsed.jt = "obj" /\ RequiredKeys \subseteq parsed.keys /\ Truthy(parsed.sql)

HasAllKeys(parsed) ==
    IF parsed.jt = "obj" THEN RequiredKeys \subseteq parsed.keys
    ELSE \A k \in RequiredKeys : Contains(parsed.text, k)

\* the subscript parsed[operation_type] in the log line: a TypeError on a str or a list
SubscriptRaises(parsed) == parsed.jt \in {"str", "list"}

\* which exceptions the except clause of _parse_sql_response catches
ParserCatchesAll(exc) == TRUE
ParserCatches(exc) == exc \in {"JSONDecodeError", "ValueError"}

OnParserError(response, exc, msg) ==
    IF ParserCatches(exc) THEN RecoveryPath(response, msg) ELSE Raised

_parse_sql_response(response) ==
    LET c == Candidate(response)
    IN  IF ~Decodes(c) THEN OnParserError(response, "JSONDecodeError", "JSONDecodeError")
        ELSE LET parsed == Decode(c)
             IN  IF MembershipRaises(parsed)
                 THEN OnParserError(response, "TypeError", "TypeError")
                 ELSE IF ~HasAllKeys(parsed)
                 THEN OnParserError(response, "ValueError", "Estructura JSON incompleta")
                 ELSE IF SubscriptRaises(parsed)
                 THEN OnParserError(response, "TypeError", "TypeError")
                 ELSE Returned(Dict(parsed.sql, parsed.operation_type,
                                    parsed.explanation))

(***************************************************************************)
(* LLMService: the two provider calls                                      *)
(***************************************************************************)
Throws == [throws |-> TRUE, text |-> <<>>]
Replies(t) == [throws |-> FALSE, text |-> t]
Behaviour(p) == IF p.throws THEN "throws" ELSE "replies"
NoProvider == [intent |-> "none", format |-> "none"]

\* the call and the parse sit in one try: any exception gives the error mapping
natural_language_to_sql(provider) ==
    LET error == Dict(JNull, JStr(<<"error">>),
                      JStr(<<"Error processing request: ", "exception">>))
    IN  IF provider.throws THEN error
        ELSE LET parsed == _parse_sql_response(Strip(provider.text))
             IN  IF parsed.raised THEN error ELSE parsed.value

\* one str.replace of a two-character sequence, left to right
RECURSIVE Replace(_, _, _)
Replace(s, wrong, correct) ==
    IF Len(s) < 2 THEN s
    ELSE IF SubSeq(s, 1, 2) = wrong
         THEN <<correct>> \o Replace(SubSeq(s, 3, Len(s)), wrong, correct)
         ELSE <<s[1]>> \o Replace(Tail(s), wrong, correct)

\* encoding_fixes, in the order of the dict literal
EncodingFixes ==
    <<[wrong |-> <<"A^", "!">>, correct |-> "!!"],
      [wrong |-> <<"A^", "?">>, correct |-> "??"],
      [wrong |-> <<"A~", "!!">>, correct |-> "a'"],
      [wrong |-> <<"A~", "(c)">>, correct |-> "e'"],
      [wrong |-> <<"A~", "-">>, correct |-> "i'"],
      [wrong |-> <<"A~", "3">>, correct |-> "o'"],
      [wrong |-> <<"A~", "o">>, correct |-> "u'"],
      [wrong |-> <<"A~", "+-">>, correct |-> "n~"],
      [wrong |-> <<"A~", "x81">>, correct |-> "A'"],
      [wrong |-> <<"A~", "%o">>, correct |-> "E'"],
      [wrong |-> <<"A~", "x8d">>, correct |-> "I'"],
      [wrong |-> <<"A~", "ldq">>, correct |-> "O'"],
      [wrong |-> <<"A~", "s^">>, correct |-> "U'"],
      [wrong |-> <<"A~", "lsq">>, correct |-> "N~"],
      [wrong |-> <<"A~", "1/4">>, correct |-> "u:"],
      [wrong |-> <<"A~", "oe">>, correct |-> "U:"]>>

RECURSIVE ApplyFixes(_, _)
ApplyFixes(s, k) ==
    IF k > Len(EncodingFixes) THEN s
    ELSE ApplyFixes(Replace(s, EncodingFixes[k].wrong, EncodingFixes[k].correct), k + 1)

_clean_encoding(text) == ApplyFixes(text, 1)

\* str() of the executor's value inside an f-string
Shown(value) == <<value.kind>>

_get_fallback_response(user_request, sql_result) ==
    <<"Hola! Recibi tu solicitud: '">> \o user_request
        \o <<"'. He procesado tu solicitud y el resultado fue: ">> \o Shown(sql_result)

format_response_unmasked(provider, sql_result, operation_type, user_request) ==
    IF provider.throws THEN <<>> ELSE _clean_encoding(Strip(provider.text))

format_response_to_natural_language(provider, sql_result, operation_type, user_request) ==
    IF provider.throws THEN _get_fallback_response(user_request, sql_result)
    ELSE _clean_encoding(Strip(provider.text))

(***************************************************************************)
(* execute_sql_query (main.py, the second definition, which is the one     *)
(* bound to the name) and Database.get_connection                          *)
(***************************************************************************)
MockRowCount == 1
MockRows == 3

IsSelectExact(q) == q.type = "str" /\ StartsWith(q.text, SELECT)

\* sql.strip().upper().startswith('SELECT')
IsSelect(q) == q.type = "str" /\ StartsWith(Upper(Strip(q.text)), SELECT)

Rows(n) == [kind |-> "rows", n |-> n]
Affected(n) == [kind |-> "rows_affected", n |-> n]
ErrorResult == [kind |-> "error", n |-> 0]
NoValue == [kind |-> "none", n |-> 0]

(***************************************************************************)
(* The two tables (database.py) and the statements that reach them         *)
(***************************************************************************)
Titles == {"1984", "Cien"}

\* init_database: both tables exist and are empty.  A book is absent or
\* carries its available flag; a reservation row carries book_id and active
EmptyStore == [books |-> [t \in Titles |-> "absent"], reservations |-> <<>>]

\* EJEMPLO 1 of the system prompt: the reservation is inserted for the book
\* if it is available
ReserveSql(t) ==
    <<"INSERT", " INTO reservations (book_id, user_email, reserved_at, expires_at) SELECT id, ... FROM books WHERE title = ",
      t, " AND available = 1">>

\* EJEMPLO 2 of the system prompt: the dates of the active reservation move
RenewSql(t) ==
    <<"UPDATE", " reservations SET renewed_at = GETDATE(), expires_at = ... WHERE book_id = (SELECT id FROM books WHERE title = ",
      t, ") AND active = 1">>

\* statements the provider writes for the kinds the prompt gives no example of
AddSql(t) == <<"INSERT", " INTO books (title, author) VALUES (", t, ")">>
CancelSql(t) ==
    <<"UPDATE", " reservations SET active = 0 WHERE book_id = (SELECT id FROM books WHERE title = ",
      t, ")">>
LendSql(t) == <<"UPDATE", " books SET available = 0 WHERE title = ", t>>

\* CREATE TABLE books: available BIT DEFAULT 1
BookDefault == "available"
\* CREATE TABLE reservations: active BIT DEFAULT 1
ReservationDefault == TRUE

\* the tables after the statement was executed and committed
Committed(s, q) ==
    IF \E t \in Titles : q = AddSql(t)
    THEN LET t == CHOOSE t \in Titles : q = AddSql(t)
         IN  [s EXCEPT !.books[t] = BookDefault]
    ELSE IF \E t \in Titles : q = ReserveSql(t)
    THEN LET t == CHOOSE t \in Titles : q = ReserveSql(t)
         IN  IF s.books[t] = "available"
             THEN [s EXCEPT !.reservations =
                       Append(@, [book_id |-> t, active |-> ReservationDefault])]
             ELSE s
    ELSE IF \E t \in Titles : q = CancelSql(t)
    THEN LET t == CHOOSE t \in Titles : q = CancelSql(t)
         IN  [s EXCEPT !.reservations =
                 [i \in 1..Len(@) |->
                     IF @[i].book_id = t THEN [@[i] EXCEPT !.active = FALSE]
                     ELSE @[i]]]
    ELSE IF \E t \in Titles : q = LendSql(t)
    THEN LET t == CHOOSE t \in Titles : q = LendSql(t)
         IN  IF s.books[t] = "absent" THEN s
             ELSE [s EXCEPT !.books[t] = "unavailable"]
    ELSE s

\* get_connection: pyodbc.connect, or MockConnection on any failure
ConnectOutcomes == {"connected", "refused", "no_driver"}
get_connection(outcome) == IF outcome = "connected" THEN "real" ELSE "mock"

\* the except Exception clause around the body of execute_sql_query
BodyErrorPropagates(step) == [raised |-> TRUE, value |-> NoValue]
OnBodyError(step) == [raised |-> FALSE, value |-> ErrorResult]

\* the except Exception clause around fetchall and the row conversion
OnFetchError(step) == Rows(0)

\* the except Exception clause around commit
OnCommitError(step) == ErrorResult

\* the bare except clauses around cursor.close() and conn.close()
CloseErrorPropagates(step) == TRUE
OnCloseError(step) == FALSE

\* the first definition of execute_sql_query keeps both closes in one try
SharedTryAroundCloses == IF entry = "execute_sql_query" THEN "returned" ELSE "format"

\* after the except: pass of cursor.close(): the try around conn.close()
NextAfterCursorClose == "close_conn"

AfterExecuteSkipsResponder == IF entry = "execute_sql_query" THEN "returned" ELSE "send"

\* where control goes when execute_sql_query is left
AfterExecute == IF entry = "execute_sql_query" THEN "returned" ELSE "format"

ExecUnchangedButStore ==
    UNCHANGED <<entry, req, email_data, llm_result, parse_out, sql,
                format_args, natural_response, send_outcome, result,
                provider_did, smtp, batch, runs>>
ExecUnchanged == ExecUnchangedButStore /\ UNCHANGED store

\* conn = db.get_connection()
ExecConnect ==
    /\ pc = "connect"
    /\ \E o \in ConnectOutcomes :
        /\ conn' = get_connection(o)
        /\ failed' = IF o = "connected" THEN failed ELSE failed \cup {"connect"}
    /\ calls' = Append(calls, "connect")
    /\ pc' = "cursor"
    /\ UNCHANGED <<cursor, ret, exec_raised>>
    /\ ExecUnchanged

\* leaving the try body with an exception
BodyFails(step) ==
    /\ failed' = failed \cup {step}
    /\ ret' = OnBodyError(step).value
    /\ exec_raised' = OnBodyError(step).raised
    /\ pc' = "close_cursor"

\* cursor = conn.cursor()
ExecCursor ==
    /\ pc = "cursor"
    /\ calls' = Append(calls, "cursor")
    /\ \/ /\ cursor' = "open"
          /\ pc' = "execute"
          /\ UNCHANGED <<ret, exec_raised, failed>>
       \/ /\ conn = "real"
          /\ cursor' = cursor
          /\ BodyFails("cursor")
    /\ UNCHANGED conn
    /\ ExecUnchanged

\* cursor.execute(sql): a value that is not a str is refused by either cursor
ExecExecute ==
    /\ pc = "execute"
    /\ calls' = Append(calls, "execute")
    /\ \/ /\ sql.type = "str"
          /\ pc' = IF IsSelect(sql) THEN "fetch" ELSE "commit"
          /\ UNCHANGED <<ret, exec_raised, failed>>
       \/ /\ conn = "real" \/ sql.type # "str"
          /\ BodyFails("execute")
    /\ UNCHANGED <<conn, cursor>>
    /\ ExecUnchanged

\* results = cursor.fetchall(); [dict(row) for row in results]
ExecFetch ==
    /\ pc = "fetch"
    /\ calls' = Append(calls, "fetchall")
    /\ \/ /\ conn = "mock"
          /\ ret' = Rows(MockRows)
          /\ failed' = failed
       \/ /\ conn = "real"
          /\ \E n \in 0..MaxRows : ret' = Rows(n)
          /\ failed' = failed
       \/ /\ conn = "real"
          /\ \E step \in {"fetch", "convert"} :
                /\ ret' = OnFetchError(step)
                /\ failed' = failed \cup {step}
    /\ pc' = "close_cursor"
    /\ UNCHANGED <<conn, cursor, exec_raised>>
    /\ ExecUnchanged

\* conn.commit(); rowcount = getattr(cursor, 'rowcount', 1): the statement
\* takes effect on the tables when a real connection commits it
ExecCommit ==
    /\ pc = "commit"
    /\ calls' = Append(calls, "commit")
    /\ \/ /\ conn = "mock"
          /\ ret' = Affected(MockRowCount)
          /\ failed' = failed
          /\ store' = store
       \/ /\ conn = "real"
          /\ \E n \in (0 - 1)..MaxRows : ret' = Affected(n)
          /\ failed' = failed
          /\ store' = Committed(store, sql.text)
       \/ /\ conn = "real"
          /\ ret' = OnCommitError("commit")
          /\ failed' = failed \cup {"commit"}
          /\ store' = store
    /\ pc' = "close_cursor"
    /\ UNCHANGED <<conn, cursor, exec_raised>>
    /\ ExecUnchangedButStore

\* finally: cursor.close(), a NameError when no cursor was bound
ExecCloseCursor ==
    /\ pc = "close_cursor"
    /\ \/ /\ cursor = "open"
          /\ calls' = Append(calls, "cursor.close")
          /\ \/ /\ cursor' = "closed"
                /\ UNCHANGED <<failed, exec_raised>>
                /\ pc' = "close_conn"
             \/ /\ conn = "real"
                /\ cursor' = cursor
                /\ failed' = failed \cup {"cursor.close"}
                /\ exec_raised' = (exec_raised \/ OnCloseError("cursor.close"))
                /\ pc' = IF OnCloseError("cursor.close") THEN AfterExecute
                         ELSE NextAfterCursorClose
       \/ /\ cursor = "unset"
          /\ exec_raised' = (exec_raised \/ OnCloseError("unbound"))
          /\ pc' = IF OnCloseError("unbound") THEN AfterExecute
                   ELSE NextAfterCursorClose
          /\ UNCHANGED <<cursor, failed, calls>>
    /\ UNCHANGED <<conn, ret>>
    /\ ExecUnchanged

\* finally: conn.close(), then the function returns the value computed above
ExecCloseConn ==
    /\ pc = "close_conn"
    /\ calls' = Append(calls, "conn.close")
    /\ \/ /\ conn' = "closed"
          /\ UNCHANGED <<failed, exec_raised>>
       \/ /\ conn = "real"
          /\ conn' = conn
          /\ failed' = failed \cup {"conn.close"}
          /\ exec_raised' = (exec_raised \/ OnCloseError("conn.close"))
    /\ pc' = AfterExecute
    /\ UNCHANGED <<cursor, ret>>
    /\ ExecUnchanged

(***************************************************************************)
(* OperationResult (models.py) and process_single_email (main.py)          *)
(***************************************************************************)
NoData ==
    [present |-> FALSE, operation |-> JNull, response_sent |-> FALSE,
     sql_generated |-> JNull, user_response |-> <<>>]
Data(op, sent, q, text) ==
    [present |-> TRUE, operation |-> op, response_sent |-> sent,
     sql_generated |-> q, user_response |-> text]

NoResult == [kind |-> "none", success |-> FALSE, message |-> <<>>, data |-> NoData]
\* the request never becomes an EmailRequest: the endpoint answers with the
\* validation error and the handler body does not run
ValidationError ==
    [kind |-> "ValidationError", success |-> FALSE, message |-> <<>>, data |-> NoData]

\* OperationResult(success=..., message=..., data=...): message must be a str
\* and validate_message_not_empty refuses a blank one and strips the others
OperationResult(success, message, data) ==
    IF message.type # "str" \/ Strip(message.text) = <<>>
    THEN [raised |-> TRUE, value |-> NoResult]
    ELSE [raised |-> FALSE,
          value |-> [kind |-> "OperationResult", success |-> success,
                     message |-> Strip(message.text), data |-> data]]

Literal(text) == JStr(<<text>>)

\* the except Exception clause of process_single_email
OnHandlerError ==
    OperationResult(FALSE, JStr(<<"Error procesando email: ", "exception">>), NoData).value

ReturnsUncaught(r) == r.value
Returns(r) == IF r.raised THEN OnHandlerError ELSE r.value

\* the try/except around send_response_email: response_sent
SendErrorPropagates(outcome) == [raised |-> outcome = "raise", sent |-> outcome = "true"]
OnSendOutcome(outcome) == [raised |-> FALSE, sent |-> outcome = "true"]

\* replies of the provider to the intent prompt
IntentReplies ==
    {<<Fence, "json", "NL">> \o Serialize(v) \o <<"NL", Fence>> : v \in JsonObjects}
        \cup {Serialize(v) : v \in JsonValues}
        \cup {<<"garbage">>, <<"reservar", " ", "garbage">>, <<"SQL:">>,
              <<"SQL:", " ", "INSERT", " ", "x", "NL", "garbage">>, <<>>}
IntentProviders == {Throws} \cup {Replies(t) : t \in IntentReplies}

\* replies of the provider to the response prompt
FormatReplies ==
    {<<>>, <<"NL", " ">>, <<" ", "h", " ">>, <<"A~", "A^", "!", "h">>}
FormatProviders == {Throws} \cup {Replies(t) : t \in FormatReplies}

SendOutcomes == {"true", "false", "raise"}

NoArgs == [sql_result |-> NoValue, operation_type |-> JNull, user_request |-> <<>>]

PipeUnchangedExec ==
    UNCHANGED <<conn, cursor, ret, exec_raised, failed, smtp, batch, store, runs>>

\* the endpoint receives a request: EmailRequest is built, then the handler
\* runs up to the first provider call
Submit ==
    /\ entry = "process_single_email"
    /\ pc = "idle"
    /\ \E s \in Subjects, b \in Bodies, f \in FromEmails :
        LET r == [subject |-> s, body |-> b, from_email |-> f]
            v == EmailRequest(r)
        IN  /\ req' = r
            /\ IF ~v.ok
               THEN /\ email_data' = NoEmailData
                    /\ result' = ValidationError
                    /\ pc' = "done"
               ELSE /\ email_data' = v
                    /\ IF v.from_email = <<>> \/ ~Contains(v.from_email, "@")
                       THEN /\ result' = Returns(OperationResult(FALSE,
                                             Literal("Email del remitente no valido"), NoData))
                            /\ pc' = "done"
                       ELSE IF Strip(v.subject) = <<>> \/ Strip(v.body) = <<>>
                       THEN /\ result' = Returns(OperationResult(FALSE,
                                             Literal("El asunto y el cuerpo del mensaje no pueden estar vacios"),
                                             NoData))
                            /\ pc' = "done"
                       ELSE /\ result' = result
                            /\ pc' = "llm_sql"
    /\ UNCHANGED <<entry, llm_result, parse_out, sql, format_args,
                   natural_response, send_outcome, calls, provider_did>>
    /\ PipeUnchangedExec

\* llm_result = await llm_service.natural_language_to_sql(...), then the
\* test on llm_result.get("sql")
ResolveIntent ==
    /\ pc = "llm_sql"
    /\ calls' = Append(calls, "llm_sql")
    /\ \E p \in IntentProviders :
        LET r == natural_language_to_sql(p)
        IN  /\ llm_result' = r
            /\ provider_did' = [provider_did EXCEPT !.intent = Behaviour(p)]
            /\ IF ~Truthy(r.sql)
               THEN /\ result' = Returns(OperationResult(FALSE, r.explanation, NoData))
                    /\ sql' = sql
                    /\ pc' = "done"
               ELSE /\ result' = result
                    /\ sql' = r.sql
                    /\ pc' = "connect"
    /\ UNCHANGED <<entry, req, email_data, parse_out, format_args,
                   natural_response, send_outcome>>
    /\ PipeUnchangedExec

\* natural_response = await llm_service.format_response_to_natural_language(...)
Format ==
    /\ pc = "format"
    /\ IF exec_raised
       THEN /\ result' = OnHandlerError
            /\ pc' = "done"
            /\ UNCHANGED <<calls, format_args, natural_response, provider_did>>
       ELSE /\ calls' = Append(calls, "llm_format")
            /\ format_args' = [sql_result |-> ret,
                               operation_type |-> llm_result.operation_type,
                               user_request |-> email_data.body]
            /\ \E p \in FormatProviders :
                 /\ natural_response' =
                        format_response_to_natural_language(p, ret,
                            llm_result.operation_type, email_data.body)
                 /\ provider_did' = [provider_did EXCEPT !.format = Behaviour(p)]
            /\ IF Contains(email_data.from_email, "@")
               THEN /\ pc' = "send"
                    /\ result' = result
               ELSE /\ pc' = "done"
                    /\ result' = Returns(OperationResult(TRUE,
                                     Literal("Email procesado exitosamente"),
                                     Data(llm_result.operation_type, FALSE,
                                          llm_result.sql, natural_response')))
    /\ UNCHANGED <<entry, req, email_data, llm_result, parse_out, sql, send_outcome>>
    /\ PipeUnchangedExec

\* response_sent = await email_processor.send_response_email(...), then the
\* successful OperationResult
Send ==
    /\ pc = "send"
    /\ calls' = Append(calls, "send")
    /\ \E o \in SendOutcomes :
        /\ send_outcome' = o
        /\ result' =
             IF OnSendOutcome(o).raised THEN OnHandlerError
             ELSE Returns(OperationResult(TRUE,
                      Literal("Email procesado exitosamente"),
                      Data(llm_result.operation_type, OnSendOutcome(o).sent,
                           llm_result.sql, natural_response)))
    /\ pc' = "done"
    /\ UNCHANGED <<entry, req, email_data, llm_result, parse_out, sql,
                   format_args, natural_response, provider_did>>
    /\ PipeUnchangedExec

(***************************************************************************)
(* A direct call of _parse_sql_response                                    *)
(***************************************************************************)
ParserSegments ==
    {<<Fence>>, <<"json">>, <<" ">>, <<"NL">>, <<"{">>, <<"}">>,
     <<"reservar">>, <<"garbage">>, <<";">>, <<"SQL:">>, SELECT,
     Serialize(Obj(RequiredKeys, JStr(QInsert), JStr(<<"RESERVE", "_BOOK">>), JStr(Why))),
     Serialize(Obj(RequiredKeys, JNull, JStr(<<"error">>), JStr(Why))),
     Serialize(Obj({"sql", "operation_type"}, JStr(QInsert),
                   JStr(<<"RESERVE", "_BOOK">>), JNull)),
     Serialize(Scalar("num", <<"42">>)), Serialize(Scalar("null", <<"null">>)),
     Serialize(Scalar("str", <<"hola">>)),
     Serialize(Scalar("list", <<"sql", "operation_type", "explanation">>)),
     <<"cancelar">>, Serialize(FencePayload)}

\* a payload inside a code block tagged json, the form the prompt asks for
FencedJson(v) == <<Fence, "json", "NL">> \o Serialize(v) \o <<"NL", Fence>>

\* a code block, tagged or not, holding one segment, with one segment after it
FencedReplies ==
    {<<Fence>> \o tag \o <<"NL">> \o x \o <<Fence>> \o y :
        tag \in {<<>>, <<"json">>},
        x \in ParserSegments \cup {<<>>},
        y \in ParserSegments \cup {<<>>}}

RECURSIVE Concat(_)
Concat(ss) == IF ss = <<>> THEN <<>> ELSE Head(ss) \o Concat(Tail(ss))

ParserReplies ==
    {Concat(ss) : ss \in Strings(ParserSegments, MaxReplyLen)}
        \cup FencedReplies
        \cup {FencedJson(v) : v \in JsonObjects}

NoParse ==
    [reply |-> <<>>, candidate |-> <<>>,
     out |-> [raised |-> FALSE, value |-> NoDict, path |-> "none"]]

ParseCall ==
    /\ entry = "_parse_sql_response"
    /\ pc = "call"
    /\ \E r \in ParserReplies :
        parse_out' = [reply |-> r, candidate |-> Candidate(r),
                      out |-> _parse_sql_response(r)]
    /\ pc' = "returned"
    /\ UNCHANGED <<entry, req, email_data, llm_result, sql, format_args,
                   natural_response, send_outcome, result, calls, provider_did>>
    /\ PipeUnchangedExec

(***************************************************************************)
(* EmailProcessor.send_response_email (email_processor.py)                 *)
(***************************************************************************)
\* smtp_configs, in the order of the list
SmtpConfigs ==
    <<[port |-> 587, use_tls |-> TRUE], [port |-> 465, use_tls |-> FALSE]>>

\* _attempt_send_email returns True or re-raises what aiosmtplib.send raised
AttemptOutcomes == {"sent", "SMTPConnectError", "SMTPAuthenticationError", "timeout"}

\* the except Exception: continue inside the loop over smtp_configs
AttemptErrorPropagates(e) == "raise"
OnAttemptError(e) == "continue"

\* the outer except Exception of send_response_email
OuterErrorPropagates(e) == "raised"
OnOuterError(e) == "false"

MailRecipients ==
    {<<"a", "@", "a", ".", "a", "a">>,
     <<"a", "1", ".", "@", "x", "-", "s", ".", "s", "a", "x">>}
MailBodies == {<<>>, <<"h">>, <<"a'", "h">>}

MailUnchanged ==
    UNCHANGED <<entry, req, email_data, llm_result, parse_out, sql, conn, cursor,
                ret, exec_raised, failed, format_args, natural_response,
                send_outcome, result, calls, provider_did, batch, store, runs>>

\* message = self._create_email_message(to_email, subject, body)
MailCreate ==
    /\ entry = "send_response_email"
    /\ pc = "create"
    /\ \/ /\ smtp' = [smtp EXCEPT !.created = TRUE]
          /\ pc' = "attempt"
       \/ /\ smtp' = [smtp EXCEPT !.value = OnOuterError("create")]
          /\ pc' = "returned"
    /\ MailUnchanged

\* one turn of the loop: success = await self._attempt_send_email(message, config)
MailAttempt ==
    /\ entry = "send_response_email"
    /\ pc = "attempt"
    /\ Len(smtp.attempts) < Len(SmtpConfigs)
    /\ \E o \in AttemptOutcomes :
        LET config == SmtpConfigs[Len(smtp.attempts) + 1]
            tried == Append(smtp.attempts, [port |-> config.port, outcome |-> o])
        IN  IF o = "sent"
            THEN /\ smtp' = [smtp EXCEPT !.attempts = tried, !.value = "true"]
                 /\ pc' = "returned"
            ELSE IF OnAttemptError(o) = "continue"
            THEN /\ smtp' = [smtp EXCEPT !.attempts = tried]
                 /\ pc' = "attempt"
            ELSE /\ smtp' = [smtp EXCEPT !.attempts = tried,
                                         !.value = OnOuterError(o)]
                 /\ pc' = "returned"
    /\ MailUnchanged

\* the loop is over: return False
MailExhausted ==
    /\ entry = "send_response_email"
    /\ pc = "attempt"
    /\ Len(smtp.attempts) = Len(SmtpConfigs)
    /\ smtp' = [smtp EXCEPT !.value = "false"]
    /\ pc' = "returned"
    /\ MailUnchanged

(***************************************************************************)
(* process_all_pending_emails (main.py)                                    *)
(***************************************************************************)
\* await asyncio.sleep(2)
SleepUnits == 2
NoThrottle(clock) == clock
Throttle(clock) == clock + SleepUnits

\* unread messages as fetch_unread_emails hands them over: one that becomes an
\* EmailRequest, one whose body is too short, one whose sender is malformed
BatchMessages ==
    {[subject |-> <<"s">>, body |-> Repeat("x", MinBodyLen),
      from_email |-> <<"a", "@", "a", ".", "a", "a">>],
     [subject |-> <<"s">>, body |-> Repeat("x", MinBodyLen - 1),
      from_email |-> <<"a", "@", "a", ".", "a", "a">>],
     [subject |-> <<"s">>, body |-> Repeat("x", MinBodyLen),
      from_email |-> <<"a", "@", "a">>]}
Mailboxes == UNION {[1..n -> BatchMessages] : n \in 0..MaxBatch}

\* what process_single_email hands back for an EmailRequest
PipelineResults ==
    {OperationResult(TRUE, Literal("Email procesado exitosamente"), NoData).value,
     OnHandlerError}

BatchUnchanged ==
    UNCHANGED <<entry, req, email_data, llm_result, parse_out, sql, conn, cursor,
                ret, exec_raised, failed, format_args, natural_response,
                send_outcome, result, calls, provider_did, smtp, store, runs>>

\* the except Exception clause of fetch_unread_emails: return []
OnFetchUnreadError(emails) == <<>>

\* emails = await email_processor.fetch_unread_emails(): every unread message
\* is appended to the list and marked as read, one after the other; when the
\* mailbox fails after k of them the call returns the empty list.  The
\* function has no await inside and runs as one step
BatchFetch ==
    /\ entry = "process_all_pending_emails"
    /\ pc = "fetch"
    /\ \/ batch' = [batch EXCEPT !.emails = batch.mailbox,
                                 !.seen = 1..Len(batch.mailbox)]
       \/ \E k \in 0..Len(batch.mailbox) :
             batch' = [batch EXCEPT
                          !.emails = OnFetchUnreadError(SubSeq(batch.mailbox, 1, k)),
                          !.seen = 1..k]
    /\ pc' = "loop"
    /\ BatchUnchanged

\* the except Exception clause inside the loop: the error is recorded and the
\* loop continues with the next message
MessageErrorEndsRun == "finished"
OnMessageError == "loop"

\* for email in emails: email_request = EmailRequest(...); a validation error
\* lands in the except branch of the loop body, which records it and continues
BatchBuild ==
    /\ entry = "process_all_pending_emails"
    /\ pc = "loop"
    /\ batch.i < Len(batch.emails)
    /\ LET email == batch.emails[batch.i + 1]
           email_request == EmailRequest(email)
       IN  IF email_request.ok
           THEN /\ batch' = [batch EXCEPT
                      !.i = batch.i + 1,
                      !.log = Append(batch.log,
                                [msg |-> batch.i + 1, ran |-> TRUE,
                                 start |-> batch.clock, end |-> batch.clock,
                                 ended |-> FALSE])]
                /\ pc' = "run"
           ELSE /\ batch' = [batch EXCEPT
                      !.i = batch.i + 1,
                      !.errors = Append(batch.errors,
                                   [email |-> email.from_email,
                                    error |-> <<"Error procesando email de ",
                                                "exception">>]),
                      !.log = Append(batch.log,
                                [msg |-> batch.i + 1, ran |-> FALSE,
                                 start |-> batch.clock, end |-> batch.clock,
                                 ended |-> TRUE])]
                /\ pc' = OnMessageError
    /\ BatchUnchanged

\* result = await process_single_email(email_request), then the bookkeeping
BatchRun ==
    /\ entry = "process_all_pending_emails"
    /\ pc = "run"
    /\ \E r \in PipelineResults, d \in 0..MaxRunUnits :
        LET now == batch.clock + d
            n == Len(batch.log)
        IN  batch' = [batch EXCEPT
                !.clock = now,
                !.log[n] = [batch.log[n] EXCEPT !.end = now, !.ended = TRUE],
                !.processed_count = IF r.success THEN @ + 1 ELSE @,
                !.errors = IF r.success THEN @
                           ELSE Append(@, [email |-> batch.emails[batch.i].from_email,
                                           error |-> r.message])]
    /\ pc' = "sleep"
    /\ BatchUnchanged

\* await asyncio.sleep(2)
BatchSleep ==
    /\ entry = "process_all_pending_emails"
    /\ pc = "sleep"
    /\ batch' = [batch EXCEPT !.clock = Throttle(batch.clock)]
    /\ pc' = "loop"
    /\ BatchUnchanged

\* the loop is over
BatchFinish ==
    /\ entry = "process_all_pending_emails"
    /\ pc = "loop"
    /\ batch.i = Len(batch.emails)
    /\ pc' = "finished"
    /\ UNCHANGED batch
    /\ BatchUnchanged

(***************************************************************************)
(* process_pending_emails (main.py): batch runs as background tasks        *)
(***************************************************************************)
RunIds == {1, 2}

NoRun == [at |-> "idle", emails |-> <<>>, i |-> 0]
NoRuns == [mailbox |-> <<>>, seen |-> {}, run |-> [r \in RunIds |-> NoRun]]

SearchAll(n, seen) == 1..n
\* mailbox.fetch(AND(seen=False)): the messages not marked as read
SearchUnseen(n, seen) == {k \in 1..n : k \notin seen}

\* a set of message numbers as the list the server yields, in mailbox order
RECURSIVE Ascending(_)
Ascending(S) ==
    IF S = {} THEN <<>> ELSE <<SetMin(S)>> \o Ascending(S \ {SetMin(S)})

RunsUnchanged ==
    UNCHANGED <<entry, pc, req, email_data, llm_result, parse_out, sql, conn,
                cursor, ret, exec_raised, failed, format_args, natural_response,
                send_outcome, result, calls, provider_did, smtp, batch, store>>

\* a message reaches the mailbox
MailArrives ==
    /\ entry = "process_pending_emails"
    /\ Len(runs.mailbox) < MaxBatch
    /\ \E m \in BatchMessages :
          runs' = [runs EXCEPT !.mailbox = Append(@, m)]
    /\ RunsUnchanged

\* POST /api/process-emails: background_tasks.add_task(process_all_pending_emails)
RunSchedule(r) ==
    /\ entry = "process_pending_emails"
    /\ runs.run[r].at = "idle"
    /\ runs' = [runs EXCEPT !.run[r].at = "fetch"]
    /\ RunsUnchanged

\* fetch_unread_emails inside run r: it has no await, so no other task runs
\* between its search and its last mark
RunFetch(r) ==
    /\ entry = "process_pending_emails"
    /\ runs.run[r].at = "fetch"
    /\ LET unread == Ascending(SearchUnseen(Len(runs.mailbox), runs.seen))
       IN  \/ runs' = [runs EXCEPT !.run[r].emails = unread,
                                   !.run[r].at = "loop",
                                   !.seen = @ \cup Range(unread)]
           \/ \E k \in 0..Len(unread) :
                 runs' = [runs EXCEPT
                            !.run[r].emails = OnFetchUnreadError(SubSeq(unread, 1, k)),
                            !.run[r].at = "loop",
                            !.seen = @ \cup Range(SubSeq(unread, 1, k))]
    /\ RunsUnchanged

\* one turn of the loop of run r up to its next await
RunMessage(r) ==
    /\ entry = "process_pending_emails"
    /\ runs.run[r].at = "loop"
    /\ runs.run[r].i < Len(runs.run[r].emails)
    /\ LET email == runs.mailbox[runs.run[r].emails[runs.run[r].i + 1]]
       IN  runs' = [runs EXCEPT
                      !.run[r].i = @ + 1,
                      !.run[r].at = IF EmailRequest(email).ok THEN "sleep"
                                    ELSE OnMessageError]
    /\ RunsUnchanged

\* await asyncio.sleep(2) of run r is over
RunSleep(r) ==
    /\ entry = "process_pending_emails"
    /\ runs.run[r].at = "sleep"
    /\ runs' = [runs EXCEPT !.run[r].at = "loop"]
    /\ RunsUnchanged

\* the loop of run r is over
RunFinish(r) ==
    /\ entry = "process_pending_emails"
    /\ runs.run[r].at = "loop"
    /\ runs.run[r].i = Len(runs.run[r].emails)
    /\ runs' = [runs EXCEPT !.run[r].at = "finished"]
    /\ RunsUnchanged

(***************************************************************************)
(* Specifications                                                          *)
(***************************************************************************)
NoSmtp == [to |-> <<>>, body |-> <<>>, created |-> FALSE, attempts |-> <<>>,
           value |-> "none"]
NoBatch == [mailbox |-> <<>>, seen |-> {}, emails |-> <<>>, i |-> 0,
            processed_count |-> 0, errors |-> <<>>, clock |-> 0, log |-> <<>>]

ExecQueries ==
    {JStr(Pad(q, n)) :
        q \in {QSelect, QInsert, QUpdate, <<"s", "e", "l", "e", "c", "t">>,
               <<"S", "e", "L", "e", "C", "t", " ", "x">>,
               <<"S", "E", "L", "E", "C">>, <<"x">> \o SELECT, <<>>},
        n \in Pads}
      \cup {JNum(<<"5">>)}

InitCommon ==
    /\ req = NoRequest
    /\ email_data = NoEmailData
    /\ llm_result = NoDict
    /\ parse_out = NoParse
    /\ conn = "unset"
    /\ cursor = "unset"
    /\ ret = NoValue
    /\ exec_raised = FALSE
    /\ failed = {}
    /\ format_args = NoArgs
    /\ natural_response = <<>>
    /\ send_outcome = "none"
    /\ result = NoResult
    /\ calls = <<>>
    /\ provider_did = NoProvider
    /\ smtp = NoSmtp
    /\ batch = NoBatch
    /\ store = EmptyStore
    /\ runs = NoRuns

\* one request through the process-email endpoint
Init ==
    /\ entry = "process_single_email"
    /\ pc = "idle"
    /\ sql = JNull
    /\ InitCommon

ExecNext ==
    \/ ExecConnect
    \/ ExecCursor
    \/ ExecExecute
    \/ ExecFetch
    \/ ExecCommit
    \/ ExecCloseCursor
    \/ ExecCloseConn

Next ==
    \/ Submit
    \/ ResolveIntent
    \/ ExecNext
    \/ Format
    \/ Send

Spec == Init /\ [][Next]_vars

\* one call of execute_sql_query
InitExec ==
    /\ entry = "execute_sql_query"
    /\ pc = "connect"
    /\ sql \in ExecQueries
    /\ InitCommon

SpecExec == InitExec /\ [][ExecNext]_vars

\* the statements of a sequence of execute_sql_query calls on one database
StoreQueries ==
    {JStr(q) : q \in {ReserveSql(t) : t \in Titles} \cup {RenewSql(t) : t \in Titles}
                       \cup {AddSql(t) : t \in Titles} \cup {CancelSql(t) : t \in Titles}
                       \cup {LendSql(t) : t \in Titles} \cup {QSelect}}

InitStore ==
    /\ entry = "execute_sql_query"
    /\ pc = "connect"
    /\ sql \in StoreQueries
    /\ InitCommon

\* the next call of execute_sql_query, on the tables as the earlier calls
\* left them
NextQuery ==
    /\ entry = "execute_sql_query"
    /\ pc = "returned"
    /\ sql' \in StoreQueries
    /\ (\E t \in Titles : sql'.text = ReserveSql(t))
          => Len(store.reservations) < MaxReservations
    /\ pc' = "connect"
    /\ conn' = "unset"
    /\ cursor' = "unset"
    /\ ret' = NoValue
    /\ exec_raised' = FALSE
    /\ failed' = {}
    /\ calls' = <<>>
    /\ UNCHANGED <<entry, req, email_data, llm_result, parse_out, format_args,
                   natural_response, send_outcome, result, provider_did, smtp,
                   batch, store, runs>>

StoreNext == ExecNext \/ NextQuery

SpecStore == InitStore /\ [][StoreNext]_vars

\* two calls of the process-emails endpoint on one mailbox
InitRuns ==
    /\ entry = "process_pending_emails"
    /\ pc = "serving"
    /\ sql = JNull
    /\ req = NoRequest
    /\ email_data = NoEmailData
    /\ llm_result = NoDict
    /\ parse_out = NoParse
    /\ conn = "unset"
    /\ cursor = "unset"
    /\ ret = NoValue
    /\ exec_raised = FALSE
    /\ failed = {}
    /\ format_args = NoArgs
    /\ natural_response = <<>>
    /\ send_outcome = "none"
    /\ result = NoResult
    /\ calls = <<>>
    /\ provider_did = NoProvider
    /\ smtp = NoSmtp
    /\ batch = NoBatch
    /\ store = EmptyStore
    /\ runs = NoRuns

RunsNext ==
    \/ MailArrives
    \/ \E r \in RunIds :
          RunSchedule(r) \/ RunFetch(r) \/ RunMessage(r) \/ RunSleep(r) \/ RunFinish(r)

SpecRuns == InitRuns /\ [][RunsNext]_vars

\* one call of _parse_sql_response
InitParser ==
    /\ entry = "_parse_sql_response"
    /\ pc = "call"
    /\ sql = JNull
    /\ InitCommon

SpecParser == InitParser /\ [][ParseCall]_vars

\* one call of send_response_email
InitMail ==
    /\ entry = "send_response_email"
    /\ pc = "create"
    /\ sql = JNull
    /\ req = NoRequest
    /\ email_data = NoEmailData
    /\ llm_result = NoDict
    /\ parse_out = NoParse
    /\ conn = "unset"
    /\ cursor = "unset"
    /\ ret = NoValue
    /\ exec_raised = FALSE
    /\ failed = {}
    /\ format_args = NoArgs
    /\ natural_response = <<>>
    /\ send_outcome = "none"
    /\ result = NoResult
    /\ calls = <<>>
    /\ provider_did = NoProvider
    /\ batch = NoBatch
    /\ store = EmptyStore
    /\ runs = NoRuns
    /\ \E t \in MailRecipients, b \in MailBodies :
          smtp = [NoSmtp EXCEPT !.to = t, !.body = b]

\* one run of process_all_pending_emails over a mailbox of unread messages
InitBatch ==
    /\ entry = "process_all_pending_emails"
    /\ pc = "fetch"
    /\ sql = JNull
    /\ req = NoRequest
    /\ email_data = NoEmailData
    /\ llm_result = NoDict
    /\ parse_out = NoParse
    /\ conn = "unset"
    /\ cursor = "unset"
    /\ ret = NoValue
    /\ exec_raised = FALSE
    /\ failed = {}
    /\ format_args = NoArgs
    /\ natural_response = <<>>
    /\ send_outcome = "none"
    /\ result = NoResult
    /\ calls = <<>>
    /\ provider_did = NoProvider
    /\ smtp = NoSmtp
    /\ store = EmptyStore
    /\ runs = NoRuns
    /\ \E m \in Mailboxes : batch = [NoBatch EXCEPT !.mailbox = m]

BatchNext == BatchFetch \/ BatchBuild \/ BatchRun \/ BatchSleep \/ BatchFinish

SpecBatch == InitBatch /\ [][BatchNext]_vars

\* the loop is a for over a list, and every call it awaits returns
SpecBatchFair == SpecBatch /\ WF_vars(BatchNext)

MailNext == MailCreate \/ MailAttempt \/ MailExhausted

SpecMail == InitMail /\ [][MailNext]_vars

(***************************************************************************)
(* Properties                                                              *)
(***************************************************************************)
Failure == result.kind = "OperationResult" /\ ~result.success
Success == result.kind = "OperationResult" /\ result.success

\* a sender with no "@", or with no "." followed by further text after the "@"
NoTldToken(f) ==
    LET s == Strip(f)
        ats == IdxOf(s, "@")
    IN  ats # {} /\ ~(\E j \in After(IdxOf(s, "."), SetMax(ats)) : j < Len(s))
MalformedSender(f) == ~Contains(f, "@") \/ NoTldToken(f)

OtherFieldsValid == Strip(req.subject) # <<>> /\ Len(Strip(req.body)) >= MinBodyLen

\* C1 as stated: a request with a malformed sender ends as an OperationResult
\* with success=false, and no provider or storage call is made in that run.
C1_MalformedSenderReturnsFailure ==
    (pc = "done" /\ MalformedSender(req.from_email))
        => (Failure /\ calls = <<>>)

\* C1 amended: a request with a malformed sender is rejected when the
\* EmailRequest is built (a validation error, no OperationResult), the run
\* ends there, and no provider or storage call is made at any point.
C1_MalformedSenderRejected ==
    (pc # "idle" /\ MalformedSender(req.from_email))
        => (pc = "done" /\ result = ValidationError /\ calls = <<>>)

C1_Witness ==
    /\ pc = "done"
    /\ Contains(req.from_email, "@")
    /\ NoTldToken(req.from_email)
    /\ OtherFieldsValid
    /\ result = ValidationError

\* C2: a request whose body has fewer than 10 characters after trimming ends
\* in failure and the intent-resolution provider call is never made.
C2_ShortBodyFailsBeforeProvider ==
    (pc # "idle" /\ Len(Strip(req.body)) < MinBodyLen)
        => (pc = "done" /\ result.kind # "none" /\ ~Success
            /\ "llm_sql" \notin Range(calls))

C2_Witness ==
    /\ pc = "done"
    /\ Strip(req.body) # <<>>
    /\ Len(Strip(req.body)) = MinBodyLen - 1
    /\ Len(req.body) > MinBodyLen
    /\ req.subject = <<"s">>
    /\ req.from_email = <<"a", "@", "a", ".", "a", "a">>
    /\ ~Success

\* C3: _parse_sql_response returns a mapping for every reply text and never
\* raises, also when the reply decodes to a JSON value that is not an object.
C3_ParserNeverRaises ==
    (entry = "_parse_sql_response" /\ pc = "returned") => ~parse_out.out.raised

NullOrEmptyQuery(j) == j.type = "null" \/ (j.type = "str" /\ j.text = <<>>)
IntentUnresolved == "llm_sql" \in Range(calls) /\ NullOrEmptyQuery(llm_result.sql)

\* C4 as stated: when intent resolution yields a null or empty query the run
\* ends FAILED with success=false and the explanation text as message, and
\* storage execution, the response-formatting call and the delivery are never
\* performed.
C4_UnresolvedIntentFailsWithExplanation ==
    IntentUnresolved
        => /\ pc = "done"
           /\ Failure
           /\ llm_result.explanation.type = "str"
           /\ result.message = llm_result.explanation.text
           /\ calls = <<"llm_sql">>

BlankExplanation ==
    llm_result.explanation.type # "str" \/ Strip(llm_result.explanation.text) = <<>>

\* C4 amended: when intent resolution yields a null or empty query the run
\* ends FAILED with success=false, and storage execution, the
\* response-formatting call and the delivery are never performed; the message
\* is the explanation text with surrounding whitespace removed when the
\* explanation is a string with a non-blank character, and the handler's
\* general processing-error message otherwise.
C4_UnresolvedIntentFails ==
    IntentUnresolved
        => /\ pc = "done"
           /\ Failure
           /\ calls = <<"llm_sql">>
           /\ result.message = IF BlankExplanation
                                THEN <<"Error procesando email: ", "exception">>
                                ELSE Strip(llm_result.explanation.text)

C4_Witness ==
    /\ pc = "done"
    /\ llm_result.sql = JStr(<<>>)
    /\ ~BlankExplanation
    /\ Failure
    /\ result.message = llm_result.explanation.text
    /\ calls = <<"llm_sql">>

\* C5: execute_sql_query never raises: whatever fails among connect, cursor
\* creation, execute, fetch, commit and the two closes, it returns a row list,
\* an affected-count mapping or an error mapping.
C5_ExecutorNeverRaises ==
    /\ ~exec_raised
    /\ (entry = "execute_sql_query" /\ pc = "returned")
          => ret.kind \in {"rows", "rows_affected", "error"}

C5_Witness ==
    /\ entry = "execute_sql_query"
    /\ pc = "returned"
    /\ {"commit", "cursor.close", "conn.close"} \subseteq failed
    /\ ret.kind = "error"

\* C6: every storage failure during execute_sql_query (connection refusal,
\* execute error, fetch error) gives a result mapping carrying an error; none
\* is reported as a row list or an affected-row count.
C6_StorageFailureGivesError ==
    (entry = "execute_sql_query" /\ pc = "returned"
        /\ failed \cap {"connect", "execute", "fetch"} # {})
        => ret.kind = "error"

BeginsWithSelect(q) ==
    /\ q.type = "str"
    /\ LET t == Upper(Strip(q.text))
       IN  Len(t) >= Len(SELECT) /\ \A i \in 1..Len(SELECT) : t[i] = SELECT[i]

\* C7 as stated: a query whose trimmed, upper-cased text begins with SELECT
\* gives a sequence of row mappings, every other query a mapping with
\* rows_affected.
C7_ResultShapeFollowsQuery ==
    (entry = "execute_sql_query" /\ pc = "returned")
        => IF BeginsWithSelect(sql) THEN ret.kind = "rows"
           ELSE ret.kind = "rows_affected"

\* C7 amended: a query whose trimmed, upper-cased text begins with SELECT
\* gives a sequence of row mappings unless cursor creation or execute failed;
\* every other query gives a mapping with rows_affected unless cursor
\* creation, execute or commit failed; in those cases, and only in those, the
\* result is an error mapping.
C7_ResultShapeUnlessFailure ==
    (entry = "execute_sql_query" /\ pc = "returned")
        => IF BeginsWithSelect(sql)
           THEN ret.kind = IF failed \cap {"cursor", "execute"} # {}
                           THEN "error" ELSE "rows"
           ELSE ret.kind = IF failed \cap {"cursor", "execute", "commit"} # {}
                           THEN "error" ELSE "rows_affected"

C7_Witness ==
    /\ entry = "execute_sql_query"
    /\ pc = "returned"
    /\ sql = JStr(<<" ", "s", "e", "l", "e", "c", "t", " ">>)
    /\ conn = "closed"
    /\ "connect" \notin failed
    /\ ret = Rows(MaxRows)

\* C8: format_response_to_natural_language returns a non-empty string for
\* every provider behaviour, a thrown call and any reply text alike.
C8_ResponderNeverEmpty ==
    "llm_format" \in Range(calls) => natural_response # <<>>

\* C9: once the responder has produced the reply, the delivery outcome does
\* not change the result: send returning true, returning false or raising, the
\* run returns success=true and the outcome shows only as response_sent.
C9_DeliveryDoesNotChangeSuccess ==
    (pc = "done" /\ "llm_format" \in Range(calls))
        => /\ Success
           /\ "send" \in Range(calls)
           /\ result.message = <<"Email procesado exitosamente">>
           /\ result.data = Data(llm_result.operation_type, send_outcome = "true",
                                 llm_result.sql, natural_response)

C9_Witness ==
    /\ pc = "done"
    /\ send_outcome = "raise"
    /\ Success
    /\ ~result.data.response_sent

QueryResolved ==
    /\ "llm_sql" \in Range(calls)
    /\ llm_result.sql.type = "str"
    /\ llm_result.sql.text # <<>>

\* C10: when a query was resolved the run goes on to the responder and ends
\* with success=true, also when the executor's value is an error mapping, and
\* the responder is called with that value.
C10_ExecutionErrorIsData ==
    QueryResolved
        => /\ pc \in {"connect", "cursor", "execute", "fetch", "commit",
                    "close_cursor", "close_conn", "format", "send", "done"}
           /\ ~exec_raised
           /\ pc = "done"
                => /\ Success
                   /\ "llm_format" \in Range(calls)
                   /\ format_args.sql_result = ret
                   /\ ret.kind \in {"rows", "rows_affected", "error"}

C10_Witness ==
    /\ pc = "done"
    /\ QueryResolved
    /\ ret.kind = "error"
    /\ format_args.sql_result.kind = "error"
    /\ Success

\* C11 as stated: process_single_email never raises to its caller: for every
\* input, validated or not, and every collaborator failure, the run ends by
\* returning an OperationResult with a success flag and a non-empty message.
C11_AlwaysReturnsOperationResult ==
    pc = "done" => (result.kind = "OperationResult" /\ result.message # <<>>)

\* C11 amended: for every input that passes the EmailRequest validation and
\* every failure of the provider, storage or mail collaborators, the run ends
\* by returning an OperationResult with a success flag and a non-empty
\* message; an input that fails that validation never reaches the handler and
\* its caller receives the validation error instead of an OperationResult.
C11_ValidatedInputReturnsOperationResult ==
    /\ ~exec_raised
    /\ pc = "done"
         => IF email_data.ok
            THEN /\ result.kind = "OperationResult"
                 /\ result.success \in BOOLEAN
                 /\ Strip(result.message) # <<>>
            ELSE result = ValidationError /\ calls = <<>>

C11_Witness ==
    /\ pc = "done"
    /\ email_data.ok
    /\ "execute" \in failed
    /\ "conn.close" \in failed
    /\ provider_did.format = "throws"
    /\ send_outcome = "raise"
    /\ result.kind = "OperationResult"

ParserReturned == entry = "_parse_sql_response" /\ pc = "returned"

ThreeFieldPayloads == {v \in JsonObjects : RequiredKeys \subseteq v.keys}
PayloadOf(v) == Dict(v.sql, v.operation_type, v.explanation)

\* C12: round trip: for every well-formed payload with the three fields, the
\* reply that wraps it in a code block tagged json is parsed to exactly that
\* payload, the three values unchanged.
C12_RoundTrip ==
    ParserReturned
        => \A v \in ThreeFieldPayloads :
              parse_out.reply = FencedJson(v)
                  => (~parse_out.out.raised /\ parse_out.out.value = PayloadOf(v))

\* the candidate decodes to an object that has the three required fields
ValidPayload ==
    /\ Decodes(parse_out.candidate)
    /\ Decode(parse_out.candidate).jt = "obj"
    /\ RequiredKeys \subseteq Decode(parse_out.candidate).keys

\* C13: tie-break: when the candidate payload decodes and has the three
\* required fields the parser returns the decoded payload as it is, through
\* the decoding branch and not the recovery branch, whatever the query in it.
C13_DecodedPayloadWins ==
    (ParserReturned /\ ValidPayload)
        => parse_out.out = Returned(PayloadOf(Decode(parse_out.candidate)))

C13_Witness ==
    /\ ParserReturned
    /\ parse_out.reply =
          Serialize(Obj(RequiredKeys, JNull, JStr(<<"error">>), JStr(Why)))
              \o <<"reservar">>
    /\ parse_out.out.path = "decoded"
    /\ parse_out.out.value.sql = JNull
    /\ parse_out.out.value.operation_type = JStr(<<"error">>)

\* C14: fallback: for every reply with no valid payload that contains
\* "reservar" in any letter case, the parser returns operation kind
\* RESERVE_BOOK, whatever other operation keywords the reply holds.
C14_ReservarGivesReserveBook ==
    (ParserReturned /\ ~ValidPayload /\ Contains(Upper(parse_out.reply), "RESERVAR"))
        => /\ ~parse_out.out.raised
           /\ parse_out.out.value.operation_type = JStr(<<"RESERVE", "_BOOK">>)

OperationKeywords ==
    {"RESERVE", "RESERVAR", "RENEW", "RENOVAR", "CANCEL", "CANCELAR",
     "ADD", "AGREGAR", "REMOVE", "ELIMINAR", "LIST", "MOSTRAR"}

\* C15: default: for every reply with no valid payload and none of the
\* operation keywords, the parser returns operation kind LIST_BOOKS, the
\* default query listing the available books, and an explanation that reports
\* the parse failure.
C15_DefaultListBooks ==
    (ParserReturned /\ ~ValidPayload
        /\ ~(\E w \in OperationKeywords : Contains(Upper(parse_out.reply), w)))
        => /\ ~parse_out.out.raised
           /\ parse_out.out.value.operation_type = JStr(<<"LIST", "_BOOKS">>)
           /\ parse_out.out.value.sql = JStr(DefaultSql)
           /\ parse_out.out.value.explanation.type = "str"
           /\ Head(parse_out.out.value.explanation.text) = "Error parsing response: "

\* the sources of a candidate in a reply, in the order of preference
JsonBlock == FencedBlock(Strip(parse_out.reply), <<"json">>, FALSE)
AnyBlock == FencedBlock(Strip(parse_out.reply), <<>>, FALSE)
Braces == BraceSpan(Strip(parse_out.reply))

NoRetry == ~Decodes(parse_out.candidate) => parse_out.out.path = "recovery"

\* C20 as stated: the candidate is the contents of the code block tagged json
\* if the reply has one, else the contents of any code block, else a
\* brace-delimited span; a lower source is used only when no higher one
\* exists, and no other source is tried when the candidate fails to decode.
C20_CandidateOrder ==
    ParserReturned
        => /\ parse_out.candidate =
                IF JsonBlock.found THEN JsonBlock.group
                ELSE IF AnyBlock.found THEN AnyBlock.group
                ELSE IF Braces.found THEN Braces.group
                ELSE Strip(parse_out.reply)
           /\ NoRetry

\* C20 amended: as stated, except that a chosen code block whose contents are
\* empty leaves the whole trimmed reply as the candidate (still without
\* falling to a lower source).
C20_CandidateOrderNonEmpty ==
    ParserReturned
        => /\ parse_out.candidate =
                IF JsonBlock.found
                THEN (IF JsonBlock.group # <<>> THEN JsonBlock.group
                      ELSE Strip(parse_out.reply))
                ELSE IF AnyBlock.found
                THEN (IF AnyBlock.group # <<>> THEN AnyBlock.group
                      ELSE Strip(parse_out.reply))
                ELSE IF Braces.found THEN Braces.group
                ELSE Strip(parse_out.reply)
           /\ NoRetry

C20_Witness ==
    /\ ParserReturned
    /\ JsonBlock.found
    /\ parse_out.candidate = <<"garbage">>
    /\ Braces.found
    /\ Decodes(Braces.group)
    /\ parse_out.out.path = "recovery"

CountOf(call) == Cardinality({i \in 1..Len(calls) : calls[i] = call})

ClosesKeepValue ==
    pc \in {"close_cursor", "close_conn"} => (ret' = ret /\ exec_raised' = exec_raised)

\* C18: in execute_sql_query the connection that was acquired is released on
\* every exit path: conn.close() is attempted exactly once, as the last
\* storage call before the function returns, also when cursor.close() fails,
\* and neither close changes the value the function returns.
C18_ConnectionReleasedOnce ==
    /\ [](CountOf("conn.close") <= 1)
    /\ []((entry = "execute_sql_query" /\ pc = "returned")
             => /\ CountOf("connect") = 1
                /\ CountOf("conn.close") = 1
                /\ calls[Len(calls)] = "conn.close")
    /\ [][ClosesKeepValue]_vars

C18_Witness ==
    /\ entry = "execute_sql_query"
    /\ pc = "returned"
    /\ conn = "real"
    /\ {"cursor.close", "conn.close"} \subseteq failed
    /\ ret = Rows(MaxRows)
    /\ CountOf("conn.close") = 1

\* C19: a provider failure ends intent resolution and is masked in response
\* formatting: when the intent call fails natural_language_to_sql returns a
\* null query with the error kind and the run returns success=false; when the
\* formatting call fails the run still returns success=true and the reply
\* text is the fallback message.
C19_ProviderFailure ==
    /\ provider_did.intent = "throws"
         => /\ pc = "done"
            /\ llm_result.sql = JNull
            /\ llm_result.operation_type = JStr(<<"error">>)
            /\ Failure
            /\ calls = <<"llm_sql">>
    /\ provider_did.format = "throws"
         => /\ natural_response = _get_fallback_response(email_data.body, ret)
            /\ natural_response # <<>>
            /\ pc \in {"send", "done"}
            /\ pc = "done"
                 => (Success /\ result.data.user_response = natural_response)

C19_Witness ==
    /\ pc = "done"
    /\ provider_did.format = "throws"
    /\ Success
    /\ Head(result.data.user_response) = "Hola! Recibi tu solicitud: '"

MailReturned == entry = "send_response_email" /\ pc = "returned"
LastAttempt == smtp.attempts[Len(smtp.attempts)]

\* C17: send_response_email tries port 587 and then port 465: the second only
\* after the first failed, the first success returns true with no further
\* attempt, both failing returns false, there are never more than two
\* attempts, and the call never raises.
C17_TwoPortsInOrder ==
    /\ Len(smtp.attempts) <= 2
    /\ Len(smtp.attempts) >= 1 => smtp.attempts[1].port = 587
    /\ Len(smtp.attempts) = 2
         => (smtp.attempts[2].port = 465 /\ smtp.attempts[1].outcome # "sent")
    /\ smtp.value = "true"
         => (MailReturned /\ smtp.attempts # <<>> /\ LastAttempt.outcome = "sent")
    /\ (smtp.attempts # <<>> /\ LastAttempt.outcome = "sent")
         => (MailReturned /\ smtp.value = "true")
    /\ MailReturned
         => /\ smtp.value \in {"true", "false"}
            /\ (smtp.created /\ smtp.value = "false")
                 => /\ Len(smtp.attempts) = 2
                    /\ \A i \in 1..2 : smtp.attempts[i].outcome # "sent"

C17_Witness ==
    /\ MailReturned
    /\ Len(smtp.attempts) = 2
    /\ smtp.attempts[1].outcome = "SMTPConnectError"
    /\ smtp.attempts[2].port = 465
    /\ smtp.attempts[2].outcome = "sent"
    /\ smtp.value = "true"

BatchLog == batch.log
\* the log holds at most one unfinished entry, the last one, and every entry
\* begins no earlier than the one before it ended
Sequential ==
    /\ \A k \in 1..Len(BatchLog) : ~BatchLog[k].ended => k = Len(BatchLog)
    /\ \A k \in 1..(Len(BatchLog) - 1) : BatchLog[k + 1].start >= BatchLog[k].end

\* C16 as stated: batch processing handles the messages one after the other,
\* and between the handling of any two consecutive messages the two-unit delay
\* elapses, whatever became of the earlier one.
C16_DelayBetweenConsecutiveMessages ==
    /\ Sequential
    /\ \A k \in 1..(Len(BatchLog) - 1) :
          BatchLog[k + 1].start >= BatchLog[k].end + SleepUnits

\* C16, as the code has it: batch processing handles the messages one after
\* the other, and the two-unit delay elapses after every message whose pipeline
\* run was made, whatever its result; a message refused when its EmailRequest is
\* built is skipped without the delay.
C16_DelayAfterEveryPipelineRun ==
    /\ Sequential
    /\ \A k \in 1..(Len(BatchLog) - 1) :
          BatchLog[k].ran => BatchLog[k + 1].start >= BatchLog[k].end + SleepUnits
    /\ \A k \in 1..(Len(BatchLog) - 1) :
          ~BatchLog[k].ran => BatchLog[k + 1].start = BatchLog[k].end

C16_Witness ==
    /\ entry = "process_all_pending_emails"
    /\ pc = "finished"
    /\ Len(BatchLog) = 3
    /\ BatchLog[1].ran /\ ~BatchLog[2].ran /\ BatchLog[3].ran
    /\ batch.processed_count = 1
    /\ Len(batch.errors) = 2
    /\ BatchLog[2].start = BatchLog[1].end + SleepUnits
    /\ BatchLog[3].start = BatchLog[2].end

\* the six members of OperationType and the error kind, which the error
\* mapping of natural_language_to_sql writes in lower case
IsOperationKind(j) ==
    j.type = "str" /\ (j.text \in OperationType \/ j.text = <<"error">>)

\* C21: the operation kind of every StructuredOperation the pipeline produces,
\* and the operation field of every successful OperationResult, is one of the
\* six enumerated kinds or the error kind, for every provider reply.
C21_OperationKindEnumerated ==
    /\ "llm_sql" \in Range(calls) => IsOperationKind(llm_result.operation_type)
    /\ Success => IsOperationKind(result.data.operation)

\* C22: in every state of the storage reachable through the operations the
\* pipeline executes, a book's availability flag is false while a reservation
\* referencing that book is active.
C22_ReservedBookUnavailable ==
    \A i \in 1..Len(store.reservations) :
        store.reservations[i].active
            => store.books[store.reservations[i].book_id] = "unavailable"

\* the first top-level brace-delimited span of a text: from the first opening
\* brace to the closing brace that balances it
Balance(t, p, i) ==
    Cardinality({k \in p..i : t[k] = "{"}) - Cardinality({k \in p..i : t[k] = "}"})
TopLevelSpan(t) ==
    LET opens == {p \in IdxOf(t, "{") : \E i \in p..Len(t) : Balance(t, p, i) = 0}
    IN  IF opens = {} THEN NoMatch
        ELSE LET p == SetMin(opens)
                 q == SetMin({i \in p..Len(t) : Balance(t, p, i) = 0})
             IN  Match(SubSeq(t, p, q))

\* C23: when the reply has no code block the candidate payload is the first
\* top-level brace-delimited span of the text, so that a reply made of a valid
\* three-field object followed by further text with a closing brace in it is
\* parsed to that first object.
C23_FirstBraceSpan ==
    (ParserReturned /\ ~AnyBlock.found)
        => /\ TopLevelSpan(Strip(parse_out.reply)).found
                => parse_out.candidate = TopLevelSpan(Strip(parse_out.reply)).group
           /\ \A v \in ThreeFieldPayloads :
                (/\ StartsWith(parse_out.reply, Serialize(v))
                 /\ Contains(SubSeq(parse_out.reply, Len(Serialize(v)) + 1,
                                    Len(parse_out.reply)), "}"))
                    => parse_out.out = Returned(PayloadOf(v))

\* C24: the parser returns a decoded payload only if it carries the three
\* required fields: whenever the candidate fails to decode, or decodes to
\* something that lacks sql, operation_type or explanation, no decoded payload
\* is returned and the result is the one the recovery path builds.
C24_IncompletePayloadRecovers ==
    ParserReturned
        => /\ parse_out.out.path = "decoded" => ValidPayload
           /\ ~ValidPayload
                => /\ parse_out.out.path = "recovery"
                   /\ \E err \in {"JSONDecodeError", "Estructura JSON incompleta"} :
                         parse_out.out = RecoveryPath(parse_out.reply, err)

\* the four external steps of a run as they appear in the log of calls: the
\* intent call, the entry into execute_sql_query, the responder call, the send
IsExternalStep(c) == c \in {"llm_sql", "connect", "llm_format", "send"}
ExternalSteps == SelectSeq(calls, IsExternalStep)
FourSteps == <<"llm_sql", "connect", "llm_format", "send">>

\* C25: in every run of process_single_email the intent call, the storage
\* execution, the responder call and the delivery call each happen at most
\* once and only in that order, none of them unless every earlier one
\* happened, and a run that returns success=true has performed all four.
C25_FourStepsInOrder ==
    /\ Len(ExternalSteps) <= Len(FourSteps)
    /\ ExternalSteps = SubSeq(FourSteps, 1, Len(ExternalSteps))
    /\ "llm_format" \in Range(calls)
         => {"cursor.close", "conn.close"} \cap
              {calls[i] : i \in {j \in 1..Len(calls) :
                                   \E k \in 1..j : calls[k] = "llm_format"}} = {}
    /\ Success => ExternalSteps = FourSteps

C25_Witness ==
    /\ pc = "done"
    /\ Success
    /\ ExternalSteps = FourSteps
    /\ send_outcome = "false"
    /\ ret.kind = "rows_affected"

BatchRunning == entry = "process_all_pending_emails"
FetchSucceeded == BatchRunning /\ pc # "fetch" /\ batch.emails = batch.mailbox
Handled == {k \in 1..Len(BatchLog) : BatchLog[k].ended}

\* every message handled so far is counted once, as processed or as an error,
\* and the messages are taken in the order of the list, each once
Accounted ==
    /\ \A k \in 1..Len(BatchLog) : BatchLog[k].msg = k
    /\ Len(BatchLog) = batch.i
    /\ batch.processed_count + Len(batch.errors) =
         IF pc = "run" THEN Cardinality(Handled) ELSE batch.i
    /\ pc # "run" => Cardinality(Handled) = batch.i

BatchFinished == BatchRunning /\ pc = "finished"

\* C26: when the fetch succeeds with n messages the batch run terminates
\* having handled every one of them exactly once, each counted in
\* processed_count or as one entry of errors, so that processed_count plus
\* the length of errors is n; a failure on one message does not keep the later
\* ones from being handled.
C26_BatchAccounting ==
    /\ [](FetchSucceeded => Accounted)
    /\ []((FetchSucceeded /\ BatchFinished)
            => /\ Len(BatchLog) = Len(batch.mailbox)
               /\ batch.processed_count + Len(batch.errors) = Len(batch.mailbox))
    /\ <>BatchFinished

C26_Witness ==
    /\ BatchFinished
    /\ Len(batch.mailbox) = 3
    /\ batch.emails = batch.mailbox
    /\ ~BatchLog[1].ran
    /\ BatchLog[2].ran /\ BatchLog[3].ran
    /\ batch.processed_count = 1
    /\ Len(batch.errors) = 2

\* C27: a reply goes to the requester only on the success path: in every run
\* that ends with success=false (validation failure, unresolved intent,
\* provider failure, unexpected exception) send_response_email is never
\* called.
C27_NoReplyOnFailure ==
    (pc = "done" /\ ~Success)
        => ("send" \notin Range(calls) /\ send_outcome = "none")

C27_Witness ==
    /\ pc = "done"
    /\ Failure
    /\ provider_did.intent = "throws"
    /\ email_data.ok
    /\ "send" \notin Range(calls)

\* the messages of the list that the loop has taken up
Submitted == {k \in 1..Len(batch.emails) : k <= batch.i}

\* C28: no unread message is lost by the fetch: a message that
\* fetch_unread_emails marked as read is in the list it returns and is then
\* taken up by the batch run, also when the mailbox fails partway through.
C28_NoMessageLost ==
    (BatchRunning /\ pc # "fetch")
        => /\ \A k \in batch.seen :
                k <= Len(batch.emails) /\ batch.emails[k] = batch.mailbox[k]
           /\ BatchFinished => batch.seen \subseteq Submitted

\* the messages run r has submitted to the pipeline so far
SubmittedBy(r) == {runs.run[r].emails[k] : k \in 1..runs.run[r].i}

\* C29: when two batch runs are triggered concurrently no unread message is
\* fetched by both: every message is submitted to the pipeline by at most one
\* of the runs.
C29_NoMessageFetchedTwice ==
    \A r1 \in RunIds, r2 \in RunIds :
        r1 # r2 => /\ Range(runs.run[r1].emails) \cap Range(runs.run[r2].emails) = {}
                   /\ SubmittedBy(r1) \cap SubmittedBy(r2) = {}

C29_Witness ==
    /\ entry = "process_pending_emails"
    /\ runs.run[1].at = "sleep"
    /\ runs.run[1].i < Len(runs.run[1].emails)
    /\ runs.run[2].at = "sleep"
    /\ SubmittedBy(1) # {}
    /\ SubmittedBy(2) # {}
    /\ runs.seen = 1..Len(runs.mailbox)

\* the run took the recovery branch of the parser: the explanation is the
\* parse-failure text, whose excerpt is the reply the parser was given
OnRecoveryPath ==
    /\ "llm_sql" \in Range(calls)
    /\ llm_result.explanation.type = "str"
    /\ Len(llm_result.explanation.text) >= 4
    /\ Head(llm_result.explanation.text) = "Error parsing response: "
RawReply ==
    SubSeq(llm_result.explanation.text, 4, Len(llm_result.explanation.text) - 1)
HandedToExecutor == "connect" \in Range(calls)

\* a statement found in the raw reply by one of the recovery patterns
RecoverableStatement(raw) ==
    FirstFound(<<SqlLabel(raw), FencedBlock(raw, <<"SQL">>, TRUE),
                 KeywordToSemicolon(raw, SELECT),
                 KeywordToSemicolon(raw, <<"INSERT">>),
                 KeywordToSemicolon(raw, <<"UPDATE">>),
                 KeywordToSemicolon(raw, <<"DELETE">>)>>)

\* C30 as stated: when the reply cannot be decoded into a valid three-field
\* payload the pipeline never executes a mutating query: the query handed to
\* the executor on the recovery path begins with SELECT, whatever the reply.
C30_RecoveryQueryReadOnly ==
    (OnRecoveryPath /\ HandedToExecutor) => IsSelect(sql)

\* C30 amended: on the recovery path the query handed to the executor is the
\* statement the recovery patterns find in the reply, trimmed, whatever its
\* kind; it is the read-only default listing when they find none.
C30_RecoveryQueryIsRecoveredText ==
    OnRecoveryPath
        => /\ llm_result.sql.type = "str"
           /\ llm_result.sql.text =
                 IF RecoverableStatement(RawReply).found
                 THEN Strip(RecoverableStatement(RawReply).group)
                 ELSE DefaultSql
           /\ ~RecoverableStatement(RawReply).found => IsSelect(llm_result.sql)
           /\ HandedToExecutor => sql = llm_result.sql
           /\ (pc = "done" /\ llm_result.sql.text # <<>>) => HandedToExecutor

C30_Witness ==
    /\ pc = "done"
    /\ OnRecoveryPath
    /\ Success
    /\ sql = JStr(QInsert)
    /\ "commit" \in Range(calls)
    /\ ret.kind = "rows_affected"

====
